---- MODULE Spec2Model ----
(***************************************************************************)
(* Model of the obsidian_image_caption plugin: the caption/size parser of  *)
(* common.ts (src/unnamed/part_003), the older copy of that parser kept in *)
(* src/src/md_processor.ts, the syntax-tree extractor of                   *)
(* src/src/state_parser.ts, the settings tab and the stylesheet of main.ts *)
(* (src/unnamed/part_001), the caption widgets of the live preview         *)
(* (src/src/preview_processor.ts, src/unnamed/part_000) and the observers  *)
(* and the figure numbering of the reading view.                           *)
(*                                                                         *)
(* JavaScript values are records tagged by the field t, so that null,      *)
(* undefined, NaN, strings, numbers and objects stay distinct values.      *)
(* A string is a sequence of one-character strings.                        *)
(***************************************************************************)
EXTENDS Integers, Sequences, FiniteSets, TLC

VARIABLES
    text,          \* the alt text handed to the parser: Str(..) or Null
    delimeter,     \* plugin.settings.delimeter: a sequence of 0..2 strings
    parsed,        \* what parseCaptionText of common.ts returned
    parsed_md,     \* what parseCaptionText of md_processor.ts did
    size,          \* what parseSize of common.ts returned
    tree,          \* the syntax tree of the editor state: a sequence of nodes
    images,        \* the outcome of StateParser.parse
    value,         \* the content of the settings text field last edited
    setting_error, \* the delimeter control carries the class setting-error
    saved,         \* the settings last written by saveSettings
    label,         \* plugin.settings.label
    css,           \* plugin.settings.css
    stylesheet,    \* the text of the plugin's style element
    dom,           \* the internal embeds of the reading view, in rendering
                   \* order, each with its pane and its caption element
    caption_observers, \* plugin.caption_observers
    last_calls,    \* the last two functions that wrote captions to dom
    widgets,       \* the elements of the live-preview caption widgets
    preview_captions, \* the captions added to the live preview by the
                   \* view observer
    captionAsHtml, \* the captionAsHtml flag of the configuration
    containers,    \* the images of the rendered content with the caption
                   \* elements each of them holds
    mutation_observers \* the MutationObservers made so far, each with its
                   \* target, whether it is connected, and its record queue

parserVars == <<text, parsed, parsed_md, size, tree, images>>
settingsVars == <<value, setting_error, saved, label, css, stylesheet>>
readingVars == <<dom, caption_observers, last_calls>>
previewVars == <<widgets, preview_captions, captionAsHtml>>
observerVars == <<containers, mutation_observers>>

vars ==
    <<parserVars, delimeter, settingsVars, readingVars, previewVars,
      observerVars>>

-----------------------------------------------------------------------------
(* Bounds of the model *)

MaxPieces == 4
MaxSizePieces == 4
MaxBlocks == 3
MaxInput == 5
MaxLabel == 5
MaxEmbeds == 3
MaxObservers == 3
MaxRecords == 2

-----------------------------------------------------------------------------
(* JavaScript values *)

Null == [t |-> "null"]
Undefined == [t |-> "undefined"]
NaN == [t |-> "NaN"]
Str(s) == [t |-> "string", v |-> s]
Num(n) == [t |-> "number", v |-> n]
NotCalled == [t |-> "not-called"]
TypeError == [t |-> "TypeError"]

\* the parts of the plugin that a specification leaves out stay as they are
\* when the plugin is loaded with its default settings and no view is open
NoParserCall ==
    /\ text = Null
    /\ parsed = NotCalled
    /\ parsed_md = NotCalled
    /\ size = NotCalled
    /\ tree = <<>>
    /\ images = NotCalled

NoSettingsTab ==
    /\ value = Null
    /\ setting_error = FALSE
    /\ saved = NotCalled
    /\ label = <<>>
    /\ css = <<>>
    /\ stylesheet = NotCalled

NoReadingView ==
    /\ dom = <<>>
    /\ caption_observers = <<>>
    /\ last_calls = <<"none", "none">>

NoPreview ==
    /\ widgets = NotCalled
    /\ preview_captions = NotCalled
    /\ captionAsHtml = FALSE

NoObservers ==
    /\ containers = <<>>
    /\ mutation_observers = <<>>

IsStr(x) == x.t = "string"

\* !x is false: the value is truthy
Truthy(x) ==
    CASE x.t = "null" -> FALSE
      [] x.t = "undefined" -> FALSE
      [] x.t = "NaN" -> FALSE
      [] x.t = "string" -> Len(x.v) > 0
      [] x.t = "number" -> x.v # 0
      [] OTHER -> TRUE

Min(a, b) == IF a < b THEN a ELSE b
Max(a, b) == IF a > b THEN a ELSE b

\* String.prototype.slice( a, b ) on a sequence of characters, 0-based
Slice(s, a, b) ==
    LET n == Len(s)
        from == IF a < 0 THEN Max(n + a, 0) ELSE Min(a, n)
        to == IF b < 0 THEN Max(n + b, 0) ELSE Min(b, n)
    IN  IF from >= to THEN <<>> ELSE SubSeq(s, from + 1, to)

\* String.prototype.slice( a )
SliceFrom(s, a) == Slice(s, a, Len(s))

\* whether d occurs in s at the 0-based index k
OccursAt(s, d, k) ==
    /\ k >= 0
    /\ k + Len(d) <= Len(s)
    /\ \A i \in 1..Len(d) : s[k + i] = d[i]

RECURSIVE IndexOfFrom(_, _, _)
IndexOfFrom(s, d, k) ==
    IF k + Len(d) > Len(s) THEN -1
    ELSE IF OccursAt(s, d, k) THEN k
    ELSE IndexOfFrom(s, d, k + 1)

\* String.prototype.indexOf( d ): the first index, or -1
IndexOf(s, d) == IndexOfFrom(s, d, 0)

RECURSIVE LastIndexOfFrom(_, _, _)
LastIndexOfFrom(s, d, k) ==
    IF k < 0 THEN -1
    ELSE IF OccursAt(s, d, k) THEN k
    ELSE LastIndexOfFrom(s, d, k - 1)

\* String.prototype.lastIndexOf( d ): the last index, or -1
LastIndexOf(s, d) == LastIndexOfFrom(s, d, Len(s) - Len(d))

\* arr[ i ] of a JavaScript array: undefined past its end
At(arr, i) == IF i < Len(arr) THEN arr[i + 1] ELSE Undefined

-----------------------------------------------------------------------------
(* The size pattern /(\d+|auto)x(\d+|auto)/i and parseInt *)

Digits == <<"0", "1", "2", "3", "4", "5", "6", "7", "8", "9">>

IsDigit(c) == \E i \in 1..Len(Digits) : Digits[i] = c

DigitVal(c) == (CHOOSE i \in 1..Len(Digits) : Digits[i] = c) - 1

\* the i flag: the letters of the pattern match either case
Lower(c) ==
    CASE c = "X" -> "x"
      [] c = "A" -> "a"
      [] c = "U" -> "u"
      [] c = "T" -> "t"
      [] c = "O" -> "o"
      [] OTHER -> c

\* length of the run of digits of s that starts at the 1-based position p
RECURSIVE DigitRunLen(_, _)
DigitRunLen(s, p) ==
    IF p <= Len(s) /\ IsDigit(s[p]) THEN 1 + DigitRunLen(s, p + 1) ELSE 0

IsAutoAt(s, p) ==
    /\ p + 3 <= Len(s)
    /\ Lower(s[p]) = "a"
    /\ Lower(s[p + 1]) = "u"
    /\ Lower(s[p + 2]) = "t"
    /\ Lower(s[p + 3]) = "o"

\* length matched at p by (\d+|auto) when auto is TRUE (common.ts), by
\* (\d+) when it is FALSE (md_processor.ts): the greedy digit run, else auto
DimLenAt(auto, s, p) ==
    IF DigitRunLen(s, p) > 0 THEN DigitRunLen(s, p)
    ELSE IF auto /\ IsAutoAt(s, p) THEN 4
    ELSE 0

\* the pattern matches at position p
PatternAt(auto, s, p) ==
    LET n1 == DimLenAt(auto, s, p)
    IN  /\ n1 > 0
        /\ p + n1 <= Len(s)
        /\ Lower(s[p + n1]) = "x"
        /\ DimLenAt(auto, s, p + n1 + 1) > 0

RECURSIVE FirstMatchFrom(_, _, _)
FirstMatchFrom(auto, s, p) ==
    IF p > Len(s) THEN 0
    ELSE IF PatternAt(auto, s, p) THEN p
    ELSE FirstMatchFrom(auto, s, p + 1)

\* text.match( size_pattern ): null, or the two groups of the leftmost match
Match(auto, s) ==
    LET p == FirstMatchFrom(auto, s, 1)
    IN  IF p = 0 THEN Null
        ELSE LET n1 == DimLenAt(auto, s, p)
                 n2 == DimLenAt(auto, s, p + n1 + 1)
             IN  [t |-> "match",
                  g1 |-> SubSeq(s, p, p + n1 - 1),
                  g2 |-> SubSeq(s, p + n1 + 1, p + n1 + n2)]

RECURSIVE DecimalValue(_, _)
DecimalValue(s, n) ==
    IF n = 0 THEN 0 ELSE 10 * DecimalValue(s, n - 1) + DigitVal(s[n])

\* parseInt( s ): the value of the leading digits, NaN when there are none
ParseInt(s) ==
    LET n == DigitRunLen(s, 1)
    IN  IF n = 0 THEN NaN ELSE Num(DecimalValue(s, n))

-----------------------------------------------------------------------------
(* common.ts *)

ImageSize(w, h) == [t |-> "ImageSize", width |-> w, height |-> h]
ParsedCaption(c, sz) == [t |-> "ParsedCaption", text |-> c, size |-> sz]

\* parseSize with the two groups of the match exchanged
parseSize_SwappedGroups(txt) ==
    IF ~Truthy(txt) THEN Undefined
    ELSE LET match == Match(TRUE, txt.v)
         IN  IF match = Null THEN Undefined
             ELSE ImageSize(ParseInt(match.g2), ParseInt(match.g1))

parseSize(txt) ==
    IF ~Truthy(txt) THEN Undefined
    ELSE LET match == Match(TRUE, txt.v)
         IN  IF match = Null THEN Undefined
             ELSE ImageSize(ParseInt(match.g1), ParseInt(match.g2))

\* CaptionAndSize with the start delimiter left in the caption
CaptionAndSize_KeepStartDelim(txt, start, end, start_delim, end_delim) ==
    LET none == start = -1 \/ end = -1 \/ start = end
        caption == IF none THEN Undefined ELSE Str(Slice(txt, start, end))
        remaining_text ==
            IF none THEN <<Str(txt)>>
            ELSE <<Str(Slice(txt, 0, start)),
                   Str(SliceFrom(txt, end + Len(end_delim)))>>
        size0 == parseSize(At(remaining_text, 0))
        size1 == IF ~Truthy(size0) THEN parseSize(At(remaining_text, 1))
                 ELSE size0
    IN  ParsedCaption(caption, size1)

\* CaptionAndSize with start = end taken as an empty caption
CaptionAndSize_EmptyWhenEqual(txt, start, end, start_delim, end_delim) ==
    LET none == start = -1 \/ end = -1
        caption == IF none THEN Undefined
                   ELSE Str(Slice(txt, start + Len(start_delim), end))
        remaining_text ==
            IF none THEN <<Str(txt)>>
            ELSE <<Str(Slice(txt, 0, start)),
                   Str(SliceFrom(txt, end + Len(end_delim)))>>
        size0 == parseSize(At(remaining_text, 0))
        size1 == IF ~Truthy(size0) THEN parseSize(At(remaining_text, 1))
                 ELSE size0
    IN  ParsedCaption(caption, size1)

\* CaptionAndSize with the right segment scanned before the left one
CaptionAndSize_RightFirst(txt, start, end, start_delim, end_delim) ==
    LET none == start = -1 \/ end = -1 \/ start = end
        caption == IF none THEN Undefined
                   ELSE Str(Slice(txt, start + Len(start_delim), end))
        remaining_text ==
            IF none THEN <<Str(txt)>>
            ELSE <<Str(SliceFrom(txt, end + Len(end_delim))),
                   Str(Slice(txt, 0, start))>>
        size0 == parseSize(At(remaining_text, 0))
        size1 == IF ~Truthy(size0) THEN parseSize(At(remaining_text, 1))
                 ELSE size0
    IN  ParsedCaption(caption, size1)

\* the part of parseCaptionText after start and end have been found
CaptionAndSize(txt, start, end, start_delim, end_delim) ==
    LET none == start = -1 \/ end = -1 \/ start = end
        caption == IF none THEN Undefined
                   ELSE Str(Slice(txt, start + Len(start_delim), end))
        remaining_text ==
            IF none THEN <<Str(txt)>>
            ELSE <<Str(Slice(txt, 0, start)),
                   Str(SliceFrom(txt, end + Len(end_delim)))>>
        size0 == parseSize(At(remaining_text, 0))
        size1 == IF ~Truthy(size0) THEN parseSize(At(remaining_text, 1))
                 ELSE size0
    IN  ParsedCaption(caption, size1)

\* parseCaptionText scanning the whole text for a size when no delimiter is set
parseCaptionText_SizeWithoutDelimiter(txt, delim) ==
    IF ~Truthy(txt) THEN Null
    ELSE IF Len(delim) = 0
        THEN ParsedCaption(txt, parseSize(txt))
    ELSE IF Len(delim) = 1
        THEN CaptionAndSize(txt.v, IndexOf(txt.v, delim[1]),
                            LastIndexOf(txt.v, delim[1]), delim[1], delim[1])
    ELSE IF Len(delim) = 2
        THEN CaptionAndSize(txt.v, IndexOf(txt.v, delim[1]),
                            LastIndexOf(txt.v, delim[2]), delim[1], delim[2])
    ELSE ParsedCaption(Undefined, Undefined)

\* parseCaptionText answering an empty text with a record of absent fields
parseCaptionText_RecordForEmpty(txt, delim) ==
    IF ~Truthy(txt) THEN ParsedCaption(Undefined, Undefined)
    ELSE IF Len(delim) = 0
        THEN CaptionAndSize(txt.v, 0, Len(txt.v), <<>>, <<>>)
    ELSE IF Len(delim) = 1
        THEN CaptionAndSize(txt.v, IndexOf(txt.v, delim[1]),
                            LastIndexOf(txt.v, delim[1]), delim[1], delim[1])
    ELSE IF Len(delim) = 2
        THEN CaptionAndSize(txt.v, IndexOf(txt.v, delim[1]),
                            LastIndexOf(txt.v, delim[2]), delim[1], delim[2])
    ELSE ParsedCaption(Undefined, Undefined)

parseCaptionText(txt, delim) ==
    IF ~Truthy(txt) THEN Null
    ELSE IF Len(delim) = 0
        THEN CaptionAndSize(txt.v, 0, Len(txt.v), <<>>, <<>>)
    ELSE IF Len(delim) = 1
        THEN CaptionAndSize(txt.v, IndexOf(txt.v, delim[1]),
                            LastIndexOf(txt.v, delim[1]), delim[1], delim[1])
    ELSE IF Len(delim) = 2
        THEN CaptionAndSize(txt.v, IndexOf(txt.v, delim[1]),
                            LastIndexOf(txt.v, delim[2]), delim[1], delim[2])
    ELSE ParsedCaption(Undefined, Undefined)

-----------------------------------------------------------------------------
(* md_processor.ts: its own older copies of the two functions *)

parseSize_md(txt) ==
    IF ~Truthy(txt) THEN Undefined
    ELSE LET match == Match(FALSE, txt.v)
         IN  IF match = Null THEN Undefined
             ELSE ImageSize(Str(match.g1), Str(match.g2))

CaptionAndSize_md(txt, start, end, start_delim, end_delim) ==
    LET none == start = -1 \/ end = -1 \/ start = end
        caption == IF none THEN Undefined
                   ELSE Str(Slice(txt, start + Len(start_delim), end))
        remaining_text ==
            IF none THEN <<Str(txt)>>
            ELSE <<Str(Slice(txt, 0, start)),
                   Str(SliceFrom(txt, end + Len(end_delim)))>>
        size0 == parseSize_md(At(remaining_text, 0))
        size1 == IF ~Truthy(size0) THEN parseSize_md(At(remaining_text, 1))
                 ELSE size0
    IN  ParsedCaption(caption, size1)

\* no guard on text: text.length and text.indexOf of null throw a TypeError
parseCaptionText_md(txt, delim) ==
    IF Len(delim) > 2 THEN ParsedCaption(Undefined, Undefined)
    ELSE IF ~IsStr(txt) THEN TypeError
    ELSE IF Len(delim) = 0
        THEN CaptionAndSize_md(txt.v, 0, Len(txt.v), <<>>, <<>>)
    ELSE IF Len(delim) = 1
        THEN CaptionAndSize_md(txt.v, IndexOf(txt.v, delim[1]),
                               LastIndexOf(txt.v, delim[1]), delim[1], delim[1])
    ELSE CaptionAndSize_md(txt.v, IndexOf(txt.v, delim[1]),
                           LastIndexOf(txt.v, delim[2]), delim[1], delim[2])

-----------------------------------------------------------------------------
(* Inputs of the parser *)

RECURSIVE Concatenations(_, _)
Concatenations(pieces, n) ==
    IF n = 0 THEN {<<>>}
    ELSE LET shorter == Concatenations(pieces, n - 1)
         IN  shorter \cup {s \o p : s \in shorter, p \in pieces}

CaptionPieces ==
    { <<"\"">>, <<"{">>, <<"}">>, <<"c">>,
      <<"1", "x", "2">>, <<"a", "u", "t", "o", "X", "3">> }

AltTexts == Concatenations(CaptionPieces, MaxPieces)

DelimiterSpecs ==
    { <<>>,
      << <<"\"">> >>,
      << <<"{", "{">> >>,
      << <<"{">>, <<"}">> >>,
      << <<"{">>, <<"}", "}">> >> }

SizePieces ==
    { <<"0">>, <<"1">>, <<"2", "0">>, <<"x">>, <<"X">>,
      <<"a", "u", "t", "o">>, <<"c">> }

SizeTexts == Concatenations(SizePieces, MaxSizePieces)

-----------------------------------------------------------------------------
(* The caption parser as a state machine: an alt text and a delimiter      *)
(* setting are given, and each of the two copies of the parser is called.  *)

InitCaption ==
    /\ text \in {Str(s) : s \in AltTexts} \cup {Null}
    /\ delimeter \in DelimiterSpecs
    /\ parsed = NotCalled
    /\ parsed_md = NotCalled
    /\ size = NotCalled
    /\ tree = <<>>
    /\ images = NotCalled
    /\ NoSettingsTab
    /\ NoReadingView
    /\ NoPreview
    /\ NoObservers

CallParseCaptionText ==
    /\ parsed = NotCalled
    /\ parsed' = parseCaptionText(text, delimeter)
    /\ UNCHANGED <<text, delimeter, parsed_md, size, tree, images>>
    /\ UNCHANGED <<settingsVars, readingVars, previewVars, observerVars>>

CallParseCaptionTextMd ==
    /\ parsed_md = NotCalled
    /\ parsed_md' = parseCaptionText_md(text, delimeter)
    /\ UNCHANGED <<text, delimeter, parsed, size, tree, images>>
    /\ UNCHANGED <<settingsVars, readingVars, previewVars, observerVars>>

NextCaption == CallParseCaptionText \/ CallParseCaptionTextMd

SpecCaption == InitCaption /\ [][NextCaption]_vars

-----------------------------------------------------------------------------
(* parseSize as a state machine *)

InitSize ==
    /\ text \in {Str(s) : s \in SizeTexts} \cup {Null, Undefined}
    /\ delimeter = <<>>
    /\ parsed = NotCalled
    /\ parsed_md = NotCalled
    /\ size = NotCalled
    /\ tree = <<>>
    /\ images = NotCalled
    /\ NoSettingsTab
    /\ NoReadingView
    /\ NoPreview
    /\ NoObservers

CallParseSize ==
    /\ size = NotCalled
    /\ size' = parseSize(text)
    /\ UNCHANGED <<text, delimeter, parsed, parsed_md, tree, images>>
    /\ UNCHANGED <<settingsVars, readingVars, previewVars, observerVars>>

NextSize == CallParseSize

SpecSize == InitSize /\ [][NextSize]_vars

-----------------------------------------------------------------------------
(* state_parser.ts: the syntax tree.  The tree is the sequence of its      *)
(* nodes in document order (the order tree.iterate enters them), each with *)
(* its props, its depth below the top node and the text it covers when it  *)
(* is a leaf.  The top node itself has no props and is not listed.         *)

Node(props, txt, depth) == [props |-> props, text |-> txt, depth |-> depth]

\* the last node of the subtree of node i
RECURSIVE SubtreeEnd(_, _, _)
SubtreeEnd(tr, i, j) ==
    IF j + 1 <= Len(tr) /\ tr[j + 1].depth > tr[i].depth
    THEN SubtreeEnd(tr, i, j + 1)
    ELSE j

\* node.nextSibling: 0 when there is none
NextSibling(tr, i) ==
    LET j == SubtreeEnd(tr, i, i) + 1
    IN  IF j <= Len(tr) /\ tr[j].depth = tr[i].depth THEN j ELSE 0

RECURSIVE DocUpTo(_, _)
DocUpTo(tr, k) == IF k = 0 THEN <<>> ELSE DocUpTo(tr, k - 1) \o tr[k].text

\* state.doc
Doc(tr) == DocUpTo(tr, Len(tr))

\* node.from and node.to, 0-based offsets into the document
NodeFrom(tr, i) == Len(DocUpTo(tr, i - 1))
NodeTo(tr, i) == Len(DocUpTo(tr, SubtreeEnd(tr, i, i)))

node_has_prop(prop, node) == prop \in node.props

node_is_embed_start(node) == node_has_prop("formatting-link-start", node)
node_is_embed_end(node) == node_has_prop("formatting-link-end", node)
node_is_image_start(node) == node_has_prop("image-marker", node)
node_is_alt_text(node) ==
    node_has_prop("link-alias", node) \/ node_has_prop("image-alt-text", node)
node_is_embed_src(node) == node_has_prop("hmd-internal-link", node)
node_is_image_src(node) == node_has_prop("url", node)

\* node_is_image_end holding from the first formatting-link-string on
node_is_image_end_OneMarker(tr, nodes) ==
    Cardinality({k \in 1..Len(nodes) :
        node_has_prop("formatting-link-string", tr[nodes[k]])}) >= 1

\* nodes is a sequence of node indices
node_is_image_end(tr, nodes) ==
    Cardinality({k \in 1..Len(nodes) :
        node_has_prop("formatting-link-string", tr[nodes[k]])}) = 2

Stop(tr, embed_type, nodes) ==
    IF embed_type = "internal"
    THEN node_is_embed_end(tr[nodes[Len(nodes)]])
    ELSE node_is_image_end(tr, nodes)

RECURSIVE collect_nodes_until(_, _, _)
collect_nodes_until(tr, embed_type, nodes) ==
    IF Stop(tr, embed_type, nodes) THEN nodes
    ELSE LET next == NextSibling(tr, nodes[Len(nodes)])
         IN  IF next = 0 THEN nodes
             ELSE collect_nodes_until(tr, embed_type, Append(nodes, next))

\* nodes.filter( node_is_embed_src ), nodes.filter( node_is_image_src ) and
\* nodes.filter( node_is_alt_text )
EmbedSrcNodes(tr, nodes) ==
    SelectSeq(nodes, LAMBDA i : node_is_embed_src(tr[i]))
ImageSrcNodes(tr, nodes) ==
    SelectSeq(nodes, LAMBDA i : node_is_image_src(tr[i]))
AltNodes(tr, nodes) ==
    SelectSeq(nodes, LAMBDA i : node_is_alt_text(tr[i]))

nodes_text(tr, nodes) ==
    Slice(Doc(tr), NodeFrom(tr, nodes[1]), NodeTo(tr, nodes[Len(nodes)]))

IsSpace(c) == c = " "

\* String.prototype.trim
RECURSIVE Trim(_)
Trim(s) ==
    IF Len(s) = 0 THEN s
    ELSE IF IsSpace(s[1]) THEN Trim(Tail(s))
    ELSE IF IsSpace(s[Len(s)]) THEN Trim(SubSeq(s, 1, Len(s) - 1))
    ELSE s

\* s.split( '|' )[ 0 ]
BeforePipe(s) ==
    LET k == IndexOf(s, <<"|">>)
    IN  IF k = -1 THEN s ELSE Slice(s, 0, k)

Thrown == [t |-> "Error", message |-> "Could not find source for nodes."]

\* parse_nodes_src stripping the leading character only
parse_nodes_src_KeepClosing(tr, nodes) ==
    LET embed_src == EmbedSrcNodes(tr, nodes)
        image_src == ImageSrcNodes(tr, nodes)
    IN  IF Len(embed_src) > 0
            THEN Str(Trim(BeforePipe(nodes_text(tr, embed_src))))
        ELSE IF Len(image_src) = 0 THEN Thrown
        ELSE Str(SliceFrom(Trim(nodes_text(tr, image_src)), 1))

parse_nodes_src(tr, nodes) ==
    LET embed_src == EmbedSrcNodes(tr, nodes)
        image_src == ImageSrcNodes(tr, nodes)
    IN  IF Len(embed_src) > 0
            THEN Str(Trim(BeforePipe(nodes_text(tr, embed_src))))
        ELSE IF Len(image_src) = 0 THEN Thrown
        ELSE Str(Slice(Trim(nodes_text(tr, image_src)), 1, -1))

\* parse_nodes_caption parsing the text of the whole span when the span
\* has no alt-text node
parse_nodes_caption_WholeSpan(tr, delim, nodes) ==
    LET alt_nodes == AltNodes(tr, nodes)
    IN  IF Len(alt_nodes) = 0
            THEN parseCaptionText(Str(nodes_text(tr, nodes)), delim)
        ELSE parseCaptionText(Str(nodes_text(tr, alt_nodes)), delim)

parse_nodes_caption(tr, delim, nodes) ==
    LET alt_nodes == AltNodes(tr, nodes)
    IN  IF Len(alt_nodes) = 0 THEN Null
        ELSE parseCaptionText(Str(nodes_text(tr, alt_nodes)), delim)

\* caption_info: the parsed caption, or a record of absent fields when
\* parse_nodes_caption found none
CaptionInfo(found) ==
    IF ~Truthy(found) THEN ParsedCaption(Undefined, Undefined) ELSE found

\* the ParsedImage pushed for the collected nodes; the Error of
\* parse_nodes_src is thrown before anything is pushed
Image(nodes, src, caption_info, embed_type) ==
    IF src = Thrown THEN Thrown
    ELSE [nodes |-> nodes,
          src |-> src,
          caption |-> caption_info.text,
          size |-> caption_info.size,
          embed_type |-> embed_type]

\* the body of the enter callback once the nodes of the embed are collected
ImageOfNodes(tr, delim, nodes, embed_type) ==
    Image(nodes,
          parse_nodes_src(tr, nodes),
          CaptionInfo(parse_nodes_caption(tr, delim, nodes)),
          embed_type)

\* the body of the enter callback for a node that starts an embed
ParsedImage(tr, delim, i, embed_type) ==
    ImageOfNodes(tr, delim, collect_nodes_until(tr, embed_type, <<i>>),
                 embed_type)

EmbedTypeOf(node) ==
    IF node_is_embed_start(node) THEN "internal"
    ELSE IF node_is_image_start(node) THEN "external"
    ELSE "none"

\* tree.iterate with the enter callback of parse, adding each image at the
\* front of the list
RECURSIVE Iterate_Unshift(_, _, _, _)
Unshift(tr, delim, i, imgs, image) ==
    IF image = Thrown THEN [t |-> "throw", error |-> Thrown]
    ELSE Iterate_Unshift(tr, delim, SubtreeEnd(tr, i, i) + 1,
                         <<image>> \o imgs)

Iterate_Unshift(tr, delim, i, imgs) ==
    IF i > Len(tr) THEN [t |-> "return", images |-> imgs]
    ELSE IF EmbedTypeOf(tr[i]) = "none"
        THEN Iterate_Unshift(tr, delim, i + 1, imgs)
    ELSE Unshift(tr, delim, i, imgs,
                 ParsedImage(tr, delim, i, EmbedTypeOf(tr[i])))

\* tree.iterate with the enter callback of parse, from node i on: the
\* callback returns true for a node that starts no embed (its children are
\* entered next) and false after pushing an image (its children are
\* skipped); an Error thrown by parse_nodes_src leaves iterate and parse
RECURSIVE Iterate(_, _, _, _)

\* images.push( image ) and return false: the walk goes on after the subtree
\* of node i; the Error thrown while image was made ends the walk
Push(tr, delim, i, imgs, image) ==
    IF image = Thrown THEN [t |-> "throw", error |-> Thrown]
    ELSE Iterate(tr, delim, SubtreeEnd(tr, i, i) + 1, Append(imgs, image))

Iterate(tr, delim, i, imgs) ==
    IF i > Len(tr) THEN [t |-> "return", images |-> imgs]
    ELSE IF EmbedTypeOf(tr[i]) = "none"
        THEN Iterate(tr, delim, i + 1, imgs)
    ELSE Push(tr, delim, i, imgs,
              ParsedImage(tr, delim, i, EmbedTypeOf(tr[i])))

\* StateParser.parse
parse(tr, delim) == Iterate(tr, delim, 1, <<>>)

-----------------------------------------------------------------------------
(* Documents: a tree is put together from the token runs the editor        *)
(* produces for embeds, complete and incomplete, and from stray tokens.    *)

EmbedStart == Node({"formatting-link-start"}, <<"!", "[", "[">>, 0)
EmbedSrc == Node({"hmd-internal-link"}, <<"a", " ">>, 0)
EmbedPipe == Node({"hmd-internal-link", "link-alias-pipe"}, <<"|">>, 0)
EmbedAlias == Node({"link-alias"}, <<"1", "x", "2", "\"", "c", "\"">>, 0)
EmbedEnd == Node({"formatting-link-end"}, <<"]", "]">>, 0)
ImageMarker == Node({"image-marker"}, <<"!">>, 0)
ImageAlt == Node({"image-alt-text"}, <<"\"", "d", "\"">>, 0)
UrlOpen == Node({"formatting-link-string", "url"}, <<"(">>, 0)
Url == Node({"url"}, <<"u">>, 0)
UrlClose == Node({"formatting-link-string", "url"}, <<")">>, 0)
Plain == Node({}, <<"c", " ">>, 0)
Container == Node({}, <<>>, 0)

\* the nodes of a block as the children of the node before them
Inside(block) ==
    [k \in 1..Len(block) |->
        [block[k] EXCEPT !.depth = block[k].depth + 1]]

Blocks ==
    { <<Plain>>,
      \* ![[a]]
      <<EmbedStart, EmbedSrc, EmbedEnd>>,
      \* ![[a|1x2"c"]]
      <<EmbedStart, EmbedSrc, EmbedPipe, EmbedAlias, EmbedEnd>>,
      \* !"d"(u)
      <<ImageMarker, ImageAlt, UrlOpen, Url, UrlClose>>,
      \* ![[]]
      <<EmbedStart, EmbedEnd>>,
      \* !"d" typed before its url
      <<ImageMarker, ImageAlt>>,
      \* stray tokens
      <<EmbedStart>>,
      <<EmbedEnd>>,
      <<UrlClose>>,
      \* an embed inside another node
      <<Container>> \o Inside(<<EmbedStart, EmbedSrc, EmbedEnd>>),
      \* an embed whose start node has an image marker as child
      <<[EmbedStart EXCEPT !.text = <<>>]>> \o Inside(<<ImageMarker, Url>>)
          \o <<EmbedSrc, EmbedEnd>> }

Trees == Concatenations(Blocks, MaxBlocks)

TreeDelimiterSpecs == { <<>>, << <<"\"">> >> }

InitTree ==
    /\ tree \in Trees
    /\ delimeter \in TreeDelimiterSpecs
    /\ text = Null
    /\ parsed = NotCalled
    /\ parsed_md = NotCalled
    /\ size = NotCalled
    /\ images = NotCalled
    /\ NoSettingsTab
    /\ NoReadingView
    /\ NoPreview
    /\ NoObservers

\* StateParser.parse( state )
CallParse ==
    /\ images = NotCalled
    /\ images' = parse(tree, delimeter)
    /\ UNCHANGED <<text, delimeter, parsed, parsed_md, size, tree>>
    /\ UNCHANGED <<settingsVars, readingVars, previewVars, observerVars>>

NextTree == CallParse

SpecTree == InitTree /\ [][NextTree]_vars

-----------------------------------------------------------------------------
(* The settings tab (main.ts, src/unnamed/part_001): the delimeter field.  *)
(* The field reports every edit of its content to the onChange handler;    *)
(* an edit types one character at the end or deletes the last one.         *)

\* value.split( ',' ): the pieces between the commas, at least one
RECURSIVE Split(_, _)
Split(s, sep) ==
    LET k == IndexOf(s, <<sep>>)
    IN  IF k = -1 THEN <<s>>
        ELSE <<Slice(s, 0, k)>> \o Split(SliceFrom(s, k + 1), sep)

\* arr.map( d => d.trim() )
RECURSIVE MapTrim(_)
MapTrim(arr) ==
    IF Len(arr) = 0 THEN <<>> ELSE <<Trim(Head(arr))>> \o MapTrim(Tail(arr))

\* arr.join( sep )
RECURSIVE Join(_, _)
Join(arr, sep) ==
    IF Len(arr) = 0 THEN <<>>
    ELSE IF Len(arr) = 1 THEN arr[1]
    ELSE arr[1] \o sep \o Join(Tail(arr), sep)

\* delimeters.some( d => !d )
SomeEmpty(arr) == \E i \in 1..Len(arr) : Len(arr[i]) = 0

\* what saveSettings writes: plugin.settings
Settings(c, l, d) == [t |-> "settings", css |-> c, label |-> l, delimeter |-> d]

\* the onChange handler with the second validation left out
OnChangeDelimeter_NoEmptyCheck(v) ==
    LET delimeters == MapTrim(Split(v, ","))
    IN  /\ value' = Str(v)
        /\ IF Len(delimeters) > 2
           THEN /\ setting_error' = TRUE
                /\ UNCHANGED <<delimeter, saved>>
           ELSE /\ setting_error' = FALSE
                /\ delimeter' = IF Len(delimeters) = 1 /\ delimeters[1] = <<>>
                                THEN <<>> ELSE delimeters
                /\ saved' = Settings(css, label, delimeter')
        /\ UNCHANGED <<parserVars, label, css, stylesheet, readingVars,
                       previewVars, observerVars>>

\* the onChange handler storing a blank input as one empty delimeter
OnChangeDelimeter_KeepBlank(v) ==
    LET delimeters == MapTrim(Split(v, ","))
    IN  /\ value' = Str(v)
        /\ IF \/ Len(delimeters) > 2
              \/ Len(delimeters) = 2 /\ SomeEmpty(delimeters)
           THEN /\ setting_error' = TRUE
                /\ UNCHANGED <<delimeter, saved>>
           ELSE /\ setting_error' = FALSE
                /\ delimeter' = delimeters
                /\ saved' = Settings(css, label, delimeter')
        /\ UNCHANGED <<parserVars, label, css, stylesheet, readingVars,
                       previewVars, observerVars>>

\* the onChange handler of the delimeter field, called with the new content
OnChangeDelimeter(v) ==
    LET delimeters == MapTrim(Split(v, ","))
    IN  /\ value' = Str(v)
        /\ IF \/ Len(delimeters) > 2
              \/ Len(delimeters) = 2 /\ SomeEmpty(delimeters)
           THEN /\ setting_error' = TRUE
                /\ UNCHANGED <<delimeter, saved>>
           ELSE /\ setting_error' = FALSE
                /\ delimeter' = IF Len(delimeters) = 1 /\ delimeters[1] = <<>>
                                THEN <<>> ELSE delimeters
                /\ saved' = Settings(css, label, delimeter')
        /\ UNCHANGED <<parserVars, label, css, stylesheet, readingVars,
                       previewVars, observerVars>>

DelimeterChars == {",", " ", "{", "}"}

\* the settings stored when the tab is opened
StoredDelimeters == { <<>>, << <<"{">> >>, << <<"{">>, <<"}">> >> }

\* display(): the field shows the stored delimeters joined by ', '
InitSettings ==
    /\ delimeter \in StoredDelimeters
    /\ value = Str(Join(delimeter, <<",", " ">>))
    /\ setting_error = FALSE
    /\ saved = NotCalled
    /\ label = <<>>
    /\ css = <<>>
    /\ stylesheet = NotCalled
    /\ NoParserCall
    /\ NoReadingView
    /\ NoPreview
    /\ NoObservers

TypeDelimeter ==
    /\ Len(value.v) < MaxInput
    /\ \E c \in DelimeterChars : OnChangeDelimeter(Append(value.v, c))

EraseDelimeter ==
    /\ Len(value.v) > 0
    /\ OnChangeDelimeter(SubSeq(value.v, 1, Len(value.v) - 1))

NextSettings == TypeDelimeter \/ EraseDelimeter

SpecSettings == InitSettings /\ [][NextSettings]_vars

-----------------------------------------------------------------------------
(* The settings tab: the label field and the stylesheet made of it.        *)
(* A piece of fixed text of the stylesheet is one element of the sequence. *)

caption_selector == <<"figcaption.obsidian-image-caption">>

\* the replacement text of the index pattern, after its $1
IndexAttr == <<"' attr(data-image-caption-index) '">>

\* label.replace( /(^|[^\\])#/g, "$1' attr(data-image-caption-index) '" )
\* from the 1-based position p on: a match at p is a # at the start of the
\* label, or a character other than a backslash followed by a #; the search
\* goes on after the match
RECURSIVE ReplaceIndexPattern(_, _)
ReplaceIndexPattern(s, p) ==
    IF p > Len(s) THEN <<>>
    ELSE IF p = 1 /\ s[p] = "#"
        THEN IndexAttr \o ReplaceIndexPattern(s, p + 1)
    ELSE IF p + 1 <= Len(s) /\ s[p] # "\\" /\ s[p + 1] = "#"
        THEN <<s[p]>> \o IndexAttr \o ReplaceIndexPattern(s, p + 2)
    ELSE <<s[p]>> \o ReplaceIndexPattern(s, p + 1)

\* s.replace( pattern, by ) with a string pattern: the first occurrence only
ReplaceFirst(s, pattern, by) ==
    IF IndexOf(s, pattern) = -1 THEN s
    ELSE Slice(s, 0, IndexOf(s, pattern)) \o by \o
         SliceFrom(s, IndexOf(s, pattern) + Len(pattern))

\* lines 90-94: the content of the label rule
LabelContent(l) ==
    ReplaceFirst(ReplaceIndexPattern(l, 1), <<"\\", "#">>, <<"#">>)

\* the text of the style element for the css and the label content given
StyleText(c, l, content) ==
    (IF Len(c) > 0
     THEN caption_selector \o <<" { ">> \o c \o <<" }">>
     ELSE <<>>)
    \o <<" ">> \o
    (IF Len(l) > 0
     THEN caption_selector \o <<"::before { content: '">> \o content
          \o <<" ' }">>
     ELSE <<>>)

\* updateStylesheet
updateStylesheet(c, l) == Str(StyleText(c, l, LabelContent(l)))

\* the onChange handler of the label field, called with the new content
OnChangeLabel(v) ==
    /\ value' = Str(v)
    /\ label' = Trim(v)
    /\ saved' = Settings(css, label', delimeter)
    /\ stylesheet' = updateStylesheet(css, label')
    /\ UNCHANGED <<parserVars, delimeter, setting_error, css, readingVars,
                   previewVars, observerVars>>

LabelChars == {"#", "\\", "a", " "}

\* onload with the default label: addStylesheet has written the style
\* element; display() shows the label in its field
InitLabel ==
    /\ label = <<>>
    /\ css \in {<<>>, <<"c">>}
    /\ value = Str(label)
    /\ stylesheet = updateStylesheet(css, label)
    /\ delimeter = <<>>
    /\ setting_error = FALSE
    /\ saved = NotCalled
    /\ NoParserCall
    /\ NoReadingView
    /\ NoPreview
    /\ NoObservers

TypeLabel ==
    /\ Len(value.v) < MaxLabel
    /\ \E c \in LabelChars : OnChangeLabel(Append(value.v, c))

EraseLabel ==
    /\ Len(value.v) > 0
    /\ OnChangeLabel(SubSeq(value.v, 1, Len(value.v) - 1))

NextLabel == TypeLabel \/ EraseLabel

SpecLabel == InitLabel /\ [][NextLabel]_vars

-----------------------------------------------------------------------------
(* The live preview: the caption widgets of preview_processor.ts and the   *)
(* captions added by the view observer (src/unnamed/part_000).             *)

\* Number.prototype.toString of a natural number
RECURSIVE NumberToString(_)
NumberToString(n) ==
    IF n < 10 THEN <<Digits[n + 1]>>
    ELSE NumberToString(n \div 10) \o <<Digits[(n % 10) + 1]>>

\* the string an assignment to innerHTML or innerText makes of a value
StringOf(x) ==
    IF IsStr(x) THEN x
    ELSE Str(<<"u", "n", "d", "e", "f", "i", "n", "e", "d">>)

\* a figcaption element: how its content was inserted ("html" by innerHTML,
\* "text" by innerText), the content, and its two data attributes
Figcaption(inserted, content, index, fignum) ==
    [t |-> "figcaption", inserted |-> inserted, content |-> content,
     index |-> index, fignum |-> fignum]

ImageCaptionWidget(caption, index) == [caption |-> caption, index |-> index]

\* ImageCaptionWidget.toDOM
toDOM(widget) ==
    Figcaption("html", StringOf(widget.caption),
               Str(NumberToString(widget.index)), Undefined)

\* addCaption of common.ts: the caption element appended to the target
addCaption(caption_text, asHtml) ==
    Figcaption(IF asHtml THEN "html" ELSE "text", StringOf(caption_text),
               Undefined, Undefined)

\* build_decorations: one widget for each image, drawn by the editor; the
\* widget of the image at list position i is made with the loop counter i - 1
Widgets(result) ==
    IF result.t = "throw" THEN result
    ELSE [t |-> "decorations",
          elements |->
              [i \in 1..Len(result.images) |->
                  toDOM(ImageCaptionWidget(result.images[i].caption,
                                           i - 1))]]

build_decorations(tr, delim) == Widgets(parse(tr, delim))

\* the part of register_preview_observers run for the marker of the image at
\* the 0-based position img_index: Null when no caption is added
MarkerCaption(info, img_index, img_wrap) ==
    IF info.embed_type = "internal" /\ img_wrap /\ Truthy(info.caption)
    THEN [addCaption(info.caption, FALSE) EXCEPT
              !.fignum = Str(NumberToString(img_index + 1))]
    ELSE Null

\* register_preview_observers: loaded is the set of markers for which a
\* loaded image container is found
register_preview_observers(image_info, loaded) ==
    [t |-> "captions",
     elements |->
         [i \in 1..Len(image_info) |->
             MarkerCaption(image_info[i], i - 1, i \in loaded)]]

PreviewBlocks ==
    { <<Plain>>,
      <<EmbedStart, EmbedSrc, EmbedEnd>>,
      <<EmbedStart, EmbedSrc, EmbedPipe, EmbedAlias, EmbedEnd>>,
      <<ImageMarker, ImageAlt, UrlOpen, Url, UrlClose>> }

PreviewTrees == Concatenations(PreviewBlocks, MaxBlocks)

InitPreview ==
    /\ tree \in PreviewTrees
    /\ delimeter \in TreeDelimiterSpecs
    /\ captionAsHtml \in BOOLEAN
    /\ widgets = NotCalled
    /\ preview_captions = NotCalled
    /\ text = Null
    /\ parsed = NotCalled
    /\ parsed_md = NotCalled
    /\ size = NotCalled
    /\ images = NotCalled
    /\ NoSettingsTab
    /\ NoReadingView
    /\ NoObservers

\* PreviewImageCaptionParser: the constructor, or update after a change
BuildDecorations ==
    /\ widgets = NotCalled
    /\ widgets' = build_decorations(tree, delimeter)
    /\ UNCHANGED <<parserVars, delimeter, settingsVars, readingVars,
                   preview_captions, captionAsHtml, observerVars>>

\* ImageCaptionParser of the view observer: the constructor, or update
ViewObserverUpdate ==
    /\ images = NotCalled
    /\ images' = parse(tree, delimeter)
    /\ IF images'.t = "throw"
       THEN preview_captions' = images'
       ELSE \E loaded \in SUBSET (1..Len(images'.images)) :
                preview_captions' =
                    register_preview_observers(images'.images, loaded)
    /\ UNCHANGED <<text, parsed, parsed_md, size, tree, delimeter,
                   settingsVars, readingVars, widgets, captionAsHtml,
                   observerVars>>

NextPreview == BuildDecorations \/ ViewObserverUpdate

SpecPreview == InitPreview /\ [][NextPreview]_vars

-----------------------------------------------------------------------------
(* The reading view (src/src/md_processor.ts): the internal embeds of the  *)
(* rendered document, the observers registered on them, and the numbering  *)
(* of the captions.                                                        *)

\* the panes (div.workspace-leaf) of the workspace
Panes == {1, 2}

\* a span.internal-embed: its pane, whether it matches span.image-embed,
\* its alt and src attributes, its caption element (Null when it has none)
\* and the size set on it
InternalEmbed(pane, matches, alt, src, caption, sz) ==
    [pane |-> pane, matches |-> matches, alt |-> alt, src |-> src,
     caption |-> caption, size |-> sz]

\* addCaption of md_processor.ts
addCaption_md(caption_text) ==
    Figcaption("text", StringOf(caption_text), Undefined, Undefined)

\* lines 47-58 of the observer: the caption and the size are put on the
\* target, unless parseCaptionText threw
Captioned(el, p) ==
    IF p = TypeError THEN TypeError
    ELSE [el EXCEPT
             !.caption = IF Truthy(p.text) THEN addCaption_md(p.text)
                         ELSE Null,
             !.size = IF Truthy(p.size) THEN p.size ELSE @]

\* the body of the loop over the mutations, for a mutation whose target is el
MutationSeen(el, delim) ==
    IF ~el.matches THEN el
    ELSE IF el.alt = el.src THEN el
    ELSE IF el.caption # Null THEN el
    ELSE Captioned(el, parseCaptionText_md(el.alt, delim))

\* for ( const mutation of mutations ): n mutations of the observed element
RECURSIVE ForEachMutation(_, _, _)
ForEachMutation(el, delim, n) ==
    IF n = 0 \/ el = TypeError THEN el
    ELSE ForEachMutation(MutationSeen(el, delim), delim, n - 1)

\* workspace.querySelectorAll( caption_selector ).forEach from the element
\* at position k on, with the counter at index
RECURSIVE NumberCaptions(_, _, _, _)
NumberCaptions(d, workspace, k, index) ==
    IF k > Len(d) THEN d
    ELSE IF d[k].pane = workspace /\ d[k].caption # Null
        THEN NumberCaptions(
                 [d EXCEPT ![k].caption.index = Str(NumberToString(index))],
                 workspace, k + 1, index + 1)
    ELSE NumberCaptions(d, workspace, k + 1, index)

\* updateFigureIndices with one counter running through all panes
RECURSIVE NumberCaptions_OneCounter(_, _, _)
NumberCaptions_OneCounter(d, k, index) ==
    IF k > Len(d) THEN d
    ELSE IF d[k].caption # Null
        THEN NumberCaptions_OneCounter(
                 [d EXCEPT ![k].caption.index = Str(NumberToString(index))],
                 k + 1, index + 1)
    ELSE NumberCaptions_OneCounter(d, k + 1, index)

updateFigureIndices_OneCounter(d) == NumberCaptions_OneCounter(d, 1, 1)

\* updateFigureIndices adding one to the index a caption already carries
RECURSIVE updateFigureIndices_AddToOld(_)
updateFigureIndices_AddToOld(d) ==
    IF Len(d) = 0 THEN d
    ELSE updateFigureIndices_AddToOld(SubSeq(d, 1, Len(d) - 1)) \o
         << IF d[Len(d)].caption = Null THEN d[Len(d)]
            ELSE [d[Len(d)] EXCEPT !.caption.index =
                     IF IsStr(@) /\ Len(@.v) = 1 /\ DigitVal(@.v[1]) < 9
                     THEN Str(NumberToString(DigitVal(@.v[1]) + 1))
                     ELSE Str(<<"1">>)] >>

\* document.querySelectorAll( 'div.workspace-leaf' ).forEach from the pane
\* workspace on
RECURSIVE ForEachWorkspace(_, _)
ForEachWorkspace(d, workspace) ==
    IF workspace \notin Panes THEN d
    ELSE ForEachWorkspace(NumberCaptions(d, workspace, 1, 1), workspace + 1)

updateFigureIndices(d) == ForEachWorkspace(d, 1)

\* this.caption_observers.indexOf( observer ): 0-based, -1 when absent
ObserverIndex(observers, observer) ==
    IF \E i \in 1..Len(observers) : observers[i] = observer
    THEN (CHOOSE i \in 1..Len(observers) :
             /\ observers[i] = observer
             /\ \A j \in 1..(i - 1) : observers[j] # observer) - 1
    ELSE -1

\* arr.splice( index, 1 ): a negative index counts from the end
Splice1(arr, index) ==
    LET i == IF index < 0 THEN Max(Len(arr) + index, 0) ELSE Min(index, Len(arr))
    IN  SubSeq(arr, 1, i) \o SubSeq(arr, i + 2, Len(arr))

\* plugin.removeObserver dropping the last entry of the list
removeObserver_Pop(observers, observer) ==
    SubSeq(observers, 1, Len(observers) - 1)

\* plugin.removeObserver
removeObserver(observers, observer) ==
    Splice1(observers, ObserverIndex(observers, observer))

\* main.removeCaptions
RECURSIVE removeCaptions(_)
removeCaptions(d) ==
    IF Len(d) = 0 THEN d
    ELSE <<[Head(d) EXCEPT !.caption = Null]>> \o removeCaptions(Tail(d))

\* the callback of the observer of the embed at position k, given the
\* mutated element and the element el its loop over the mutations left: a
\* TypeError thrown in the loop leaves the callback before lines 61-62
CallbackEnds(k, mutated, el) ==
    IF el = TypeError
    THEN /\ dom' = [dom EXCEPT ![k] = mutated]
         /\ UNCHANGED <<caption_observers, last_calls>>
    ELSE /\ dom' = updateFigureIndices([dom EXCEPT ![k] = el])
         /\ caption_observers' = removeObserver(caption_observers, k)
         /\ last_calls' = IF el.caption # dom[k].caption
                          THEN <<"addCaption", "updateFigureIndices">>
                          ELSE <<last_calls[2], "updateFigureIndices">>

Observed(k) == \E i \in 1..Len(caption_observers) : caption_observers[i] = k

AltCaption == <<"1", "x", "2", "\"", "c", "\"">>

EmbedStates ==
    { InternalEmbed(p, e[1], e[2], Str(<<"a">>), e[3], Undefined) :
        p \in Panes,
        e \in { <<FALSE, Str(AltCaption), Null>>,
                <<TRUE, Str(<<"a">>), Null>>,
                <<TRUE, Null, Null>>,
                <<TRUE, Str(AltCaption),
                  Figcaption("text", Str(<<"c">>), Str(<<"3">>), Undefined)>> } }

\* the embeds of a pane follow those of the pane before it
Doms ==
    { d \in UNION { [1..n -> EmbedStates] : n \in 0..MaxEmbeds } :
        \A i, j \in 1..Len(d) : i < j => d[i].pane <= d[j].pane }

\* the number of mutations an observer is called with
MutationCounts == {1, 2}

InitReading ==
    /\ dom \in Doms
    /\ delimeter = << <<"\"">> >>
    /\ caption_observers = <<>>
    /\ last_calls = <<"none", "none">>
    /\ NoParserCall
    /\ NoSettingsTab
    /\ NoPreview
    /\ NoObservers

\* processInternalImageCaption on the rendered document: an observer for
\* each span.internal-embed
ProcessInternal ==
    /\ Len(dom) > 0
    /\ caption_observers = <<>>
    /\ caption_observers' = [k \in 1..Len(dom) |-> k]
    /\ UNCHANGED <<parserVars, delimeter, settingsVars, dom, last_calls,
                   previewVars, observerVars>>

\* attributes of the embed at position k change n times, the image being
\* loaded by the change or not; its observer, when there is one, is called
\* with the n mutations
Mutation ==
    \E k \in 1..Len(dom), loads \in BOOLEAN, n \in MutationCounts :
        /\ IF Observed(k)
           THEN CallbackEnds(k,
                    [dom[k] EXCEPT !.matches = @ \/ loads],
                    ForEachMutation(
                        [dom[k] EXCEPT !.matches = @ \/ loads],
                        delimeter, n))
           ELSE /\ dom' = [dom EXCEPT ![k].matches = @ \/ loads]
                /\ UNCHANGED <<caption_observers, last_calls>>
        /\ UNCHANGED <<parserVars, delimeter, settingsVars, previewVars,
                       observerVars>>

\* onunload: clearObservers and removeCaptions
Unload ==
    /\ last_calls[2] # "removeCaptions"
    /\ caption_observers' = <<>>
    /\ dom' = removeCaptions(dom)
    /\ last_calls' = <<last_calls[2], "removeCaptions">>
    /\ UNCHANGED <<parserVars, delimeter, settingsVars, previewVars,
                   observerVars>>

NextReading == ProcessInternal \/ Mutation \/ Unload

SpecReading == InitReading /\ [][NextReading]_vars

-----------------------------------------------------------------------------
(* The observers of the rendered content: the post processors and the      *)
(* observer callbacks of src/src/md_processor.ts, the observer list of     *)
(* main.ts (src/unnamed/part_001) and register_preview_observers of the    *)
(* view observer (src/unnamed/part_000).  The rendered content is a        *)
(* sequence of images of one pane: internal embeds (span.internal-embed)   *)
(* and external images (img) of the reading view, and image containers of  *)
(* the live preview.  Each image holds the caption elements appended to    *)
(* its container.  A post processor is run on the section that holds one   *)
(* image, and may be run on the same section again.                        *)

\* an image of the rendered content: matches is whether an internal embed
\* matches span.image-embed, wrapped whether an external image is inside a
\* span.obsidian-image-caption-external-embed, info the ParsedImage of a
\* live-preview image; setSize_calls counts the calls of setSize on the
\* image while a handler runs
RenderedImage(kind, matches, alt, src, info) ==
    [kind |-> kind, matches |-> matches, wrapped |-> FALSE, alt |-> alt,
     src |-> src, info |-> info, captions |-> <<>>, size |-> Undefined,
     setSize_calls |-> 0]

\* new MutationObserver( callback ) after observer.observe( target ), with
\* the records queued for it
NewObserver(kind, target, records) ==
    [kind |-> kind, target |-> target, connected |-> TRUE,
     records |-> records]

\* observer.disconnect(): the queued records are dropped
Disconnected(observer) ==
    [observer EXCEPT !.connected = FALSE, !.records = <<>>]

\* lines 47-58 of internalCaptionObserver and lines 326-360 of
\* processExternalImageCaption: the caption is appended to the target and
\* the size is set on it, unless parseCaptionText threw
AddParsed(el, p) ==
    IF p = TypeError THEN TypeError
    ELSE [el EXCEPT
             !.captions = IF Truthy(p.text)
                          THEN Append(@, addCaption_md(p.text))
                          ELSE @,
             !.size = IF Truthy(p.size) THEN p.size ELSE @,
             !.setSize_calls = IF Truthy(p.size) THEN @ + 1 ELSE @]

\* the body of the loop of internalCaptionObserver without the test for a
\* caption that is already there
InternalMutation_NoCaptionTest(el, delim) ==
    IF ~el.matches THEN el
    ELSE IF el.alt = el.src THEN el
    ELSE AddParsed(el, parseCaptionText_md(el.alt, delim))

\* the body of the loop of internalCaptionObserver for a mutation whose
\* target is el
InternalMutation(el, delim) ==
    IF ~el.matches THEN el
    ELSE IF el.alt = el.src THEN el
    ELSE IF Len(el.captions) > 0 THEN el
    ELSE AddParsed(el, parseCaptionText_md(el.alt, delim))

\* for ( const mutation of mutations ): n records of the observed element
RECURSIVE InternalMutations(_, _, _)
InternalMutations(el, delim, n) ==
    IF n = 0 \/ el = TypeError THEN el
    ELSE InternalMutations(InternalMutation(el, delim), delim, n - 1)

\* n more attribute records in the queue, which holds MaxRecords at most
Queued(records, n) ==
    [i \in 1..Min(Len(records) + n, MaxRecords) |-> "attributes"]

\* the attributes of the internal embed k were set n times: every connected
\* observer of k other than o gets the records (the observers are made with
\* { attributes: true, attributesFilter: [ 'class' ] }, which filters
\* nothing)
Notified(observers, o, k, n) ==
    [q \in 1..Len(observers) |->
        IF /\ q # o
           /\ observers[q].connected
           /\ observers[q].kind = "internal"
           /\ observers[q].target = k
        THEN [observers[q] EXCEPT !.records = Queued(@, n)]
        ELSE observers[q]]

\* el.dataset.imageCaptionIndex = index for the captions of one container
Numbered(captions, index) ==
    [i \in 1..Len(captions) |->
        [captions[i] EXCEPT !.index = Str(NumberToString(index + i - 1))]]

\* updateFigureIndices of md_processor.ts over the containers of the pane,
\* from the container k on with the counter at index
RECURSIVE NumberContainers(_, _, _)
NumberContainers(cs, k, index) ==
    IF k > Len(cs) THEN cs
    ELSE NumberContainers([cs EXCEPT ![k].captions = Numbered(@, index)],
                          k + 1, index + Len(cs[k].captions))

\* closestSibling( marker, '.internal-embed.image-embed.is-loaded', -1 ):
\* the loaded container of the image the marker k stands for, 0 when that
\* image is not loaded
closestSibling(k, loaded) == IF k \in loaded THEN k ELSE 0

\* the captions register_preview_observers leaves in the container of the
\* marker k: the captions of before are removed, then the caption of the
\* image is added to the container found for the marker
PreviewCaptions(image, k, img_wrap) ==
    IF MarkerCaption(image.info, k - 1, img_wrap # 0) = Null THEN <<>>
    ELSE <<MarkerCaption(image.info, k - 1, img_wrap # 0)>>

\* the childList records of the observer made by
\* processExternalImageCaption: the img moved into the container, then the
\* caption appended to it
ExternalRecords(p) ==
    <<"img">> \o (IF Truthy(p.text) THEN <<"caption">> ELSE <<>>)

AltSizeOnly == <<"1", "x", "2">>

ImageInfo(caption) ==
    [embed_type |-> "internal", caption |-> caption, size |-> Undefined]

ImageStates ==
    { RenderedImage("internal", FALSE, Str(AltCaption), Str(<<"a">>), Null),
      RenderedImage("internal", FALSE, Str(AltSizeOnly), Str(<<"a">>), Null),
      RenderedImage("internal", FALSE, Null, Str(<<"a">>), Null),
      RenderedImage("external", FALSE, Str(AltCaption), Str(<<"u">>), Null),
      RenderedImage("external", FALSE, Str(AltSizeOnly), Str(<<"u">>), Null),
      RenderedImage("external", FALSE, Null, Str(<<"u">>), Null),
      RenderedImage("preview", FALSE, Null, Null, ImageInfo(Str(<<"c">>))),
      RenderedImage("preview", FALSE, Null, Null, ImageInfo(Undefined)) }

\* the number of images of the rendered content
ImageCounts == {1, 2}

InitObservers ==
    /\ containers \in UNION { [1..n -> ImageStates] : n \in ImageCounts }
    /\ mutation_observers = <<>>
    /\ delimeter = << <<"\"">> >>
    /\ dom = <<>>
    /\ caption_observers = <<>>
    /\ last_calls = <<"none", "none">>
    /\ NoParserCall
    /\ NoSettingsTab
    /\ NoPreview

\* processInternalImageCaption on the section of the internal embed k: an
\* observer is made, set on the embed and added to the list
ProcessInternalImageCaption ==
    \E k \in 1..Len(containers) :
        /\ containers[k].kind = "internal"
        /\ Len(mutation_observers) < MaxObservers
        /\ mutation_observers' =
               Append(mutation_observers, NewObserver("internal", k, <<>>))
        /\ caption_observers' =
               Append(caption_observers, Len(mutation_observers) + 1)
        /\ UNCHANGED <<parserVars, delimeter, settingsVars, dom, last_calls,
                       previewVars, containers>>

\* lines 320-360 of processExternalImageCaption for the img k with the
\* parsed alt text p
ProcessImg(k, p) ==
    IF p = TypeError \/ ~(Truthy(p.text) \/ Truthy(p.size))
    THEN UNCHANGED <<containers, mutation_observers, caption_observers>>
    ELSE /\ mutation_observers' =
                Append(mutation_observers,
                       NewObserver("external", k, ExternalRecords(p)))
         /\ caption_observers' =
                Append(caption_observers, Len(mutation_observers) + 1)
         /\ containers' =
                [containers EXCEPT
                    ![k] = [AddParsed(@, p) EXCEPT
                               !.wrapped = TRUE, !.setSize_calls = 0]]

\* processExternalImageCaption on the section of the external image k
ProcessExternalImageCaption ==
    \E k \in 1..Len(containers) :
        /\ containers[k].kind = "external"
        /\ Len(mutation_observers) < MaxObservers
        /\ IF containers[k].wrapped
           THEN UNCHANGED <<containers, mutation_observers,
                            caption_observers>>
           ELSE ProcessImg(k, parseCaptionText_md(containers[k].alt,
                                                  delimeter))
        /\ UNCHANGED <<parserVars, delimeter, settingsVars, dom, last_calls,
                       previewVars>>

\* an attribute of the internal embed k changes, the image being loaded by
\* the change or not: every connected observer of k gets a record
AttributeMutation ==
    \E k \in 1..Len(containers), loads \in BOOLEAN :
        /\ containers[k].kind = "internal"
        /\ \A q \in 1..Len(mutation_observers) :
               mutation_observers[q].target = k =>
                   Len(mutation_observers[q].records) < MaxRecords
        /\ containers' = [containers EXCEPT ![k].matches = @ \/ loads]
        /\ mutation_observers' = Notified(mutation_observers, 0, k, 1)
        /\ UNCHANGED <<parserVars, delimeter, settingsVars, readingVars,
                       previewVars>>

\* the end of the callback of the internal observer o of the embed k, whose
\* loop over the records left the element el: a TypeError thrown in the
\* loop leaves the callback before lines 61-62; setSize sets the width and
\* the height of the target, which the other observers of k see
InternalCallbackEnds(o, k, el) ==
    IF el = TypeError
    THEN /\ mutation_observers' =
                [mutation_observers EXCEPT ![o].records = <<>>]
         /\ UNCHANGED <<containers, caption_observers>>
    ELSE /\ containers' =
                NumberContainers(
                    [containers EXCEPT
                        ![k] = [el EXCEPT !.setSize_calls = 0]], 1, 1)
         /\ mutation_observers' =
                [Notified(mutation_observers, o, k, 2 * el.setSize_calls)
                    EXCEPT ![o] = Disconnected(@)]
         /\ caption_observers' = removeObserver(caption_observers, o)

\* the callback of internalCaptionObserver, called with the queued records
InternalCaptionObserver ==
    \E o \in 1..Len(mutation_observers) :
        /\ mutation_observers[o].kind = "internal"
        /\ mutation_observers[o].connected
        /\ Len(mutation_observers[o].records) > 0
        /\ InternalCallbackEnds(
               o, mutation_observers[o].target,
               InternalMutations(containers[mutation_observers[o].target],
                                 delimeter,
                                 Len(mutation_observers[o].records)))
        /\ UNCHANGED <<parserVars, delimeter, settingsVars, dom, last_calls,
                       previewVars>>

\* the callback of externalCaptionObserver, called with the queued records
ExternalCaptionObserver ==
    \E o \in 1..Len(mutation_observers) :
        /\ mutation_observers[o].kind = "external"
        /\ mutation_observers[o].connected
        /\ Len(mutation_observers[o].records) > 0
        /\ IF \E i \in 1..Len(mutation_observers[o].records) :
                  mutation_observers[o].records[i] = "caption"
           THEN /\ containers' = NumberContainers(containers, 1, 1)
                /\ mutation_observers' =
                       [mutation_observers EXCEPT ![o] = Disconnected(@)]
                /\ caption_observers' = removeObserver(caption_observers, o)
           ELSE /\ mutation_observers' =
                       [mutation_observers EXCEPT ![o].records = <<>>]
                /\ UNCHANGED <<containers, caption_observers>>
        /\ UNCHANGED <<parserVars, delimeter, settingsVars, dom, last_calls,
                       previewVars>>

\* register_preview_observers, after an update of the live preview in which
\* the images of loaded are loaded
RegisterPreviewObservers ==
    \E loaded \in SUBSET {k \in 1..Len(containers) :
                             containers[k].kind = "preview"} :
        /\ loaded # {} \/ \E k \in 1..Len(containers) :
                              /\ containers[k].kind = "preview"
                              /\ Len(containers[k].captions) > 0
        /\ containers' =
               [k \in 1..Len(containers) |->
                   IF containers[k].kind = "preview"
                   THEN [containers[k] EXCEPT
                            !.captions =
                                PreviewCaptions(containers[k], k,
                                                closestSibling(k, loaded))]
                   ELSE containers[k]]
        /\ UNCHANGED <<parserVars, delimeter, settingsVars, readingVars,
                       previewVars, mutation_observers>>

InList(observers, o) == \E i \in 1..Len(observers) : observers[i] = o

\* onunload: clearObservers disconnects the observers of the list and
\* empties it, removeCaptions removes every caption element of the document;
\* an external observer that is still connected gets a record of the removal
OnUnload ==
    /\ \/ Len(caption_observers) > 0
       \/ \E k \in 1..Len(containers) : Len(containers[k].captions) > 0
    /\ mutation_observers' =
           [o \in 1..Len(mutation_observers) |->
               IF InList(caption_observers, o)
                   THEN Disconnected(mutation_observers[o])
               ELSE IF /\ mutation_observers[o].connected
                       /\ mutation_observers[o].kind = "external"
                       /\ Len(containers[mutation_observers[o].target]
                                  .captions) > 0
                   THEN [mutation_observers[o] EXCEPT
                            !.records = Append(@, "removed")]
               ELSE mutation_observers[o]]
    /\ caption_observers' = <<>>
    /\ containers' =
           [k \in 1..Len(containers) |->
               [containers[k] EXCEPT !.captions = <<>>]]
    /\ UNCHANGED <<parserVars, delimeter, settingsVars, dom, last_calls,
                   previewVars>>

NextObservers ==
    \/ ProcessInternalImageCaption
    \/ ProcessExternalImageCaption
    \/ AttributeMutation
    \/ InternalCaptionObserver
    \/ ExternalCaptionObserver
    \/ RegisterPreviewObservers
    \/ OnUnload

SpecObservers == InitObservers /\ [][NextObservers]_vars

-----------------------------------------------------------------------------
(* Notions the properties are stated with, written from the words of the   *)
(* properties and not from the code above.                                 *)

\* the 0-based indices at which d occurs in s
Occurrences(s, d) ==
    {k \in 0..Len(s) :
        k + Len(d) <= Len(s) /\ SubSeq(s, k + 1, k + Len(d)) = d}

SetMin(S) == CHOOSE k \in S : \A j \in S : k <= j
SetMax(S) == CHOOSE k \in S : \A j \in S : k >= j

FirstOccurrence(s, d) ==
    IF Occurrences(s, d) = {} THEN -1 ELSE SetMin(Occurrences(s, d))
LastOccurrence(s, d) ==
    IF Occurrences(s, d) = {} THEN -1 ELSE SetMax(Occurrences(s, d))

StartDelim == delimeter[1]
EndDelim == delimeter[Len(delimeter)]

\* a caption region is found: 1 or 2 delimiters, both found, at two places
RegionFound ==
    /\ IsStr(text)
    /\ Len(delimeter) \in {1, 2}
    /\ FirstOccurrence(text.v, StartDelim) # -1
    /\ LastOccurrence(text.v, EndDelim) # -1
    /\ FirstOccurrence(text.v, StartDelim) # LastOccurrence(text.v, EndDelim)

\* the text before the start delimiter and the text after the end delimiter
LeftSegment ==
    SubSeq(text.v, 1, FirstOccurrence(text.v, StartDelim))
RightSegment ==
    SubSeq(text.v, LastOccurrence(text.v, EndDelim) + Len(EndDelim) + 1,
           Len(text.v))

-----------------------------------------------------------------------------
(* Properties of the caption parser, under SpecCaption *)

\* C1: when the first start delimiter (index start) and the last end
\* delimiter (index end) both exist and start # end, the caption is
\* text[start + len(startDelim) .. end): character for character the text
\* between the two delimiters, delimiter characters inside it included.
C1_CaptionBetweenDelimiters ==
    (parsed # NotCalled /\ RegionFound) =>
        LET lo == FirstOccurrence(text.v, StartDelim) + Len(StartDelim)
            hi == LastOccurrence(text.v, EndDelim)
        IN  /\ parsed.t = "ParsedCaption"
            /\ IsStr(parsed.text)
            /\ Len(parsed.text.v) = Max(hi - lo, 0)
            /\ \A i \in 1..Len(parsed.text.v) :
                   parsed.text.v[i] = text.v[lo + i]

\* a caption that itself holds the delimiter has been returned
C1_Witness ==
    /\ parsed # NotCalled
    /\ RegionFound
    /\ Len(delimeter) = 1
    /\ IsStr(parsed.text)
    /\ Occurrences(parsed.text.v, StartDelim) # {}

\* C2: for a non-empty text and 1 or 2 delimiters, when the start delimiter
\* is missing, or the end delimiter is missing, or the first start index is
\* the last end index, the caption is absent and the size is the one found
\* in the entire text (in both copies of the parser).
C2_NoRegionScansWholeText ==
    (/\ IsStr(text)
     /\ Len(text.v) > 0
     /\ Len(delimeter) \in {1, 2}
     /\ ~RegionFound) =>
        /\ parsed # NotCalled =>
               /\ parsed.t = "ParsedCaption"
               /\ parsed.text = Undefined
               /\ parsed.size = parseSize(text)
        /\ parsed_md # NotCalled =>
               /\ parsed_md.t = "ParsedCaption"
               /\ parsed_md.text = Undefined
               /\ parsed_md.size = parseSize_md(text)

\* a single delimiter that occurs exactly once, next to a size directive
C2_Witness ==
    /\ parsed # NotCalled
    /\ IsStr(text)
    /\ Len(delimeter) = 1
    /\ Cardinality(Occurrences(text.v, StartDelim)) = 1
    /\ parsed.text = Undefined
    /\ parsed.size # Undefined

\* C3 as stated: for every text t, parseCaptionText(t, []) is
\* {text: t, size: absent}.
C3_Original ==
    (parsed # NotCalled /\ IsStr(text) /\ delimeter = <<>>) =>
        parsed = ParsedCaption(text, Undefined)

\* C3 amended: for every non-empty text t, parseCaptionText(t, []) is
\* {text: t, size: absent}, also when t holds a size directive; for the
\* empty text it is null.
C3_NoDelimiterWholeText ==
    (parsed # NotCalled /\ IsStr(text) /\ delimeter = <<>>) =>
        IF Len(text.v) > 0
        THEN parsed = ParsedCaption(text, Undefined)
        ELSE parsed = Null

\* no delimiter, and the text holds a size directive
C3_Witness ==
    /\ parsed # NotCalled
    /\ delimeter = <<>>
    /\ parseSize(text) # Undefined
    /\ parsed.text = text

\* C4 as stated: with empty or absent text parseCaptionText returns the
\* record {text: absent, size: absent}.
C4_Original ==
    (parsed # NotCalled /\ ~Truthy(text)) =>
        parsed = ParsedCaption(Undefined, Undefined)

\* C4 amended: with empty or absent text parseCaptionText returns null, and
\* no record, for every delimiter spec.
C4_EmptyTextReturnsNull ==
    (parsed # NotCalled /\ ~Truthy(text)) => parsed = Null

\* the empty text parsed under a delimiter
C4_Witness ==
    /\ parsed = Null
    /\ text = Str(<<>>)
    /\ Len(delimeter) > 0

\* C5: when a caption region is found, the size is the first match of the
\* text before the start delimiter if that has one, otherwise the first
\* match of the text after the end delimiter, otherwise absent: a size
\* directive inside the caption is never taken.
C5_SizeOutsideCaption ==
    (parsed # NotCalled /\ RegionFound) =>
        /\ parsed.t = "ParsedCaption"
        /\ parsed.size =
               IF parseSize(Str(LeftSegment)) # Undefined
               THEN parseSize(Str(LeftSegment))
               ELSE parseSize(Str(RightSegment))

\* both segments hold a size directive, and the two differ
C5_Witness ==
    /\ parsed # NotCalled
    /\ RegionFound
    /\ parseSize(Str(LeftSegment)) # Undefined
    /\ parseSize(Str(RightSegment)) # Undefined
    /\ parseSize(Str(LeftSegment)) # parseSize(Str(RightSegment))
    /\ parsed.size = parseSize(Str(LeftSegment))

\* C8: parseCaptionText never throws: every call returns null or a record.
C8_NeverThrows ==
    /\ parsed.t \in {"not-called", "null", "ParsedCaption"}
    /\ parsed_md.t \in {"not-called", "null", "ParsedCaption"}

-----------------------------------------------------------------------------
(* Properties of parseSize, under SpecSize *)

AutoToken == <<"a", "u", "t", "o">>

IsDigits(w) == Len(w) > 0 /\ \A i \in 1..Len(w) : IsDigit(w[i])
IsAuto(w) == Len(w) = 4 /\ \A i \in 1..4 : Lower(w[i]) = AutoToken[i]
IsDim(w) == IsDigits(w) \/ IsAuto(w)

\* s holds, from the 1-based position p, <dim>x<dim> with dims of n1 and n2
\* characters
DirectiveAt(s, p, n1, n2) ==
    /\ p + n1 + n2 <= Len(s)
    /\ IsDim(SubSeq(s, p, p + n1 - 1))
    /\ s[p + n1] \in {"x", "X"}
    /\ IsDim(SubSeq(s, p + n1 + 1, p + n1 + n2))

Directives(s) ==
    {d \in (1..Len(s)) \X (1..Len(s)) \X (1..Len(s)) :
        DirectiveAt(s, d[1], d[2], d[3])}

\* the leftmost directive, its second dimension taken as long as it goes
FirstDirective(s) ==
    CHOOSE d \in Directives(s) :
        \A e \in Directives(s) :
            d[1] < e[1] \/ (d[1] = e[1] /\ d[3] >= e[3])

RECURSIVE Pow10(_)
Pow10(k) == IF k = 0 THEN 1 ELSE 10 * Pow10(k - 1)

RECURSIVE PlaceValueSum(_, _)
PlaceValueSum(w, i) ==
    IF i > Len(w) THEN 0
    ELSE DigitVal(w[i]) * Pow10(Len(w) - i) + PlaceValueSum(w, i + 1)

\* the number a run of digits writes in base ten
Decimal(w) == PlaceValueSum(w, 1)

C7_AutoPreserved ==
    (size # NotCalled /\ IsStr(text) /\ Directives(text.v) # {}) =>
        LET d == FirstDirective(text.v)
            w == SubSeq(text.v, d[1], d[1] + d[2] - 1)
            h == SubSeq(text.v, d[1] + d[2] + 1, d[1] + d[2] + d[3])
        IN  /\ size.t = "ImageSize"
            /\ IsAuto(w) => size.width = Str(AutoToken)
            /\ IsAuto(h) => size.height = Str(AutoToken)

-----------------------------------------------------------------------------
(* Properties of StateParser.parse, under SpecTree *)

IsEmbedStart(node) ==
    node.props \cap {"formatting-link-start", "image-marker"} # {}

\* the nodes whose subtree holds node i
Ancestors(tr, i) == {a \in 1..(i - 1) : SubtreeEnd(tr, a, a) >= i}

\* the embeds of the document: the start nodes that lie in no other start
\* node
Embeds(tr) ==
    {i \in 1..Len(tr) :
        /\ IsEmbedStart(tr[i])
        /\ \A a \in Ancestors(tr, i) : ~IsEmbedStart(tr[a])}

SpanOf(tr, i) == collect_nodes_until(tr, EmbedTypeOf(tr[i]), <<i>>)

\* the span holds an internal-link or a URL tagged node
Resolvable(tr, nodes) ==
    \E k \in 1..Len(nodes) :
        tr[nodes[k]].props \cap {"hmd-internal-link", "url"} # {}

ValidEmbeds(tr) == {i \in Embeds(tr) : Resolvable(tr, SpanOf(tr, i))}

StartNodes(recs) == [k \in 1..Len(recs) |-> recs[k].nodes[1]]

Increasing(seq) ==
    \A i, j \in 1..Len(seq) : i < j => seq[i] < seq[j]

\* C9: in a pass over a document with an embed whose source cannot be
\* resolved and with valid embeds, no fault reaches the caller, and the
\* returned list holds the records of the valid embeds in their order.
C9_UnresolvableSpanSkipped ==
    (/\ images # NotCalled
     /\ ValidEmbeds(tree) # {}
     /\ ValidEmbeds(tree) # Embeds(tree)) =>
        /\ images.t = "return"
        /\ {StartNodes(images.images)[k] :
               k \in 1..Len(images.images)} = ValidEmbeds(tree)
        /\ Increasing(StartNodes(images.images))

\* C10: parse returns its records in document order: the start node of an
\* earlier record comes before the start node of a later one, in node order
\* and in text offset, and the list position of a record is the number of
\* embeds that start before it.
C10_DocumentOrder ==
    images.t = "return" =>
        LET starts == StartNodes(images.images)
        IN  /\ Increasing(starts)
            /\ \A i, j \in 1..Len(starts) :
                   i < j => NodeFrom(tree, starts[i]) <= NodeFrom(tree, starts[j])
            /\ \A k \in 1..Len(starts) :
                   Cardinality({e \in Embeds(tree) : e < starts[k]}) = k - 1

\* three records, internal and external, have been returned
C10_Witness ==
    /\ images.t = "return"
    /\ Len(images.images) = 3
    /\ images.images[1].embed_type # images.images[3].embed_type

\* the nodes of a span together with their descendants
Covered(tr, nodes) ==
    UNION { nodes[m]..SubtreeEnd(tr, nodes[m], nodes[m]) :
              m \in 1..Len(nodes) }

\* C19: no node of the span of one record, and no descendant of such a
\* node, is the start node or a span node of another record.
C19_SpansDisjoint ==
    images.t = "return" =>
        \A i, j \in 1..Len(images.images) :
            i # j =>
                Covered(tree, images.images[i].nodes)
                    \cap {images.images[j].nodes[m] :
                             m \in 1..Len(images.images[j].nodes)} = {}

\* j is the sibling that follows node i
SiblingAfter(tr, i, j) ==
    /\ i < j
    /\ j <= Len(tr)
    /\ tr[j].depth = tr[i].depth
    /\ \A m \in (i + 1)..(j - 1) : tr[m].depth > tr[i].depth

\* the end predicate of the record's embed type holds at the m-th node of
\* its span
EndHolds(tr, rec, m) ==
    IF rec.embed_type = "internal"
    THEN "formatting-link-end" \in tr[rec.nodes[m]].props
    ELSE Cardinality({q \in 1..m :
             "formatting-link-string" \in tr[rec.nodes[q]].props}) = 2

\* C20: the span of every record is a run of consecutive siblings that
\* begins with the start node and ends at the first node at which the end
\* predicate holds, or at the last sibling when it holds at none.
C20_SpanIsSiblingRun ==
    images.t = "return" =>
        \A k \in 1..Len(images.images) :
            LET rec == images.images[k]
                n == Len(rec.nodes)
            IN  /\ n >= 1
                /\ EmbedTypeOf(tree[rec.nodes[1]]) = rec.embed_type
                /\ \A m \in 1..(n - 1) :
                       /\ SiblingAfter(tree, rec.nodes[m], rec.nodes[m + 1])
                       /\ ~EndHolds(tree, rec, m)
                /\ \/ EndHolds(tree, rec, n)
                   \/ ~\E j \in 1..Len(tree) :
                          SiblingAfter(tree, rec.nodes[n], j)

\* one span ended by its second formatting-link-string, another by the end
\* of the siblings
C20_Witness ==
    /\ images.t = "return"
    /\ \E k \in 1..Len(images.images) :
          /\ images.images[k].embed_type = "external"
          /\ Len(images.images[k].nodes) = 5
          /\ EndHolds(tree, images.images[k], 5)
    /\ \E k \in 1..Len(images.images) :
          /\ Len(images.images[k].nodes) > 2
          /\ ~EndHolds(tree, images.images[k], Len(images.images[k].nodes))

-----------------------------------------------------------------------------
(* Claims about the delimeter setting, checked under SpecSettings *)

Commas(v) == {i \in 1..Len(v) : v[i] = ","}

Blank(w) == \A i \in 1..Len(w) : w[i] = " "

\* the input has more than two comma-separated entries, or exactly two of
\* which one holds nothing but whitespace
InvalidInput(v) ==
    \/ Cardinality(Commas(v)) >= 2
    \/ /\ Cardinality(Commas(v)) = 1
       /\ LET k == CHOOSE i \in Commas(v) : TRUE
          IN  \/ Blank(SubSeq(v, 1, k - 1))
              \/ Blank(SubSeq(v, k + 1, Len(v)))

\* C11: an edit of the delimeter field whose content has more than two
\* entries, or two entries of which one is empty after trimming, leaves the
\* stored delimeters and the saved settings as they were and shows the error
\* indicator; an edit with a valid content removes the indicator.
C11_InvalidEditRejected ==
    [][ /\ InvalidInput(value'.v) =>
            /\ delimeter' = delimeter
            /\ saved' = saved
            /\ setting_error'
        /\ ~InvalidInput(value'.v) => ~setting_error' ]_vars

\* "{, " was typed over the stored pair { and }: the pair is still stored
\* and nothing was saved
C11_Witness ==
    /\ value = Str(<<"{", ",", " ">>)
    /\ setting_error
    /\ delimeter = << <<"{">>, <<"}">> >>
    /\ saved = NotCalled

Trimmed(w) == Len(w) = 0 \/ (w[1] # " " /\ w[Len(w)] # " ")

\* C12: the stored delimeters are 0, 1 or 2 entries, each trimmed, none of
\* them empty, and a blank field is stored as no delimeter at all.
C12_StoredSpecValid ==
    /\ Len(delimeter) \in {0, 1, 2}
    /\ \A i \in 1..Len(delimeter) :
           Trimmed(delimeter[i]) /\ Len(delimeter[i]) > 0
    /\ Blank(value.v) => delimeter = <<>>

\* the stored pair was erased down to a single blank, which was saved as no
\* delimeter
C12_Witness ==
    /\ value = Str(<<" ">>)
    /\ saved # NotCalled
    /\ saved.delimeter = <<>>
    /\ delimeter = <<>>
    /\ ~setting_error

-----------------------------------------------------------------------------
(* Claims about the captions of the live preview, checked under SpecPreview *)

\* the caption elements shown, each with the 1-based list position of its
\* record
ShownCaptions ==
    (IF widgets.t = "decorations"
     THEN {<<i, widgets.elements[i]>> : i \in 1..Len(widgets.elements)}
     ELSE {})
    \cup
    (IF preview_captions.t = "captions"
     THEN {<<i, preview_captions.elements[i]>> :
              i \in {j \in 1..Len(preview_captions.elements) :
                        preview_captions.elements[j] # Null}}
     ELSE {})

\* C13: the caption element of the record at the 0-based list position i
\* carries i + 1 in its data-image-caption-index attribute.
C13_OneBasedIndex ==
    \A c \in ShownCaptions : c[2].index = Str(<<Digits[c[1] + 1]>>)

\* C18: a caption is inserted as markup only when captionAsHtml is true.
C18_HtmlOnlyWhenEnabled ==
    \A c \in ShownCaptions : c[2].inserted = "html" => captionAsHtml

-----------------------------------------------------------------------------
(* Claims about the reading view, checked under SpecReading *)

\* the positions of the captions of a pane, in rendering order
CaptionPositions(d, pane) ==
    {k \in 1..Len(d) : d[k].pane = pane /\ d[k].caption # Null}

\* the rank of the caption at position k among the captions of its pane
RankInPane(d, k) ==
    Cardinality({j \in CaptionPositions(d, d[k].pane) : j <= k})

\* C14: after updateFigureIndices has run, the captions of every pane carry
\* 1..n in rendering order.
C14_DenseIndicesPerPane ==
    last_calls[2] = "updateFigureIndices" =>
        \A pane \in Panes : \A k \in CaptionPositions(dom, pane) :
            dom[k].caption.index = Str(<<Digits[RankInPane(dom, k) + 1]>>)

\* a caption was added in front of a caption that carried the index 3, and
\* the other pane has a caption of its own
C14_Witness ==
    /\ last_calls = <<"addCaption", "updateFigureIndices">>
    /\ \E pane \in Panes :
          /\ Cardinality(CaptionPositions(dom, pane)) = 2
          /\ Cardinality(CaptionPositions(dom, 3 - pane)) = 1

\* C15: a run of updateFigureIndices that follows a run with no caption
\* added or removed in between leaves every caption as the first run left it.
C15_RenumberIdempotent ==
    [][ (/\ last_calls[2] = "updateFigureIndices"
         /\ last_calls' = <<"updateFigureIndices", "updateFigureIndices">>)
        => \A k \in 1..Len(dom) : dom'[k].caption = dom[k].caption ]_vars

\* two runs in a row over a document with captions in it
C15_Witness ==
    /\ last_calls = <<"updateFigureIndices", "updateFigureIndices">>
    /\ \E pane \in Panes : Cardinality(CaptionPositions(dom, pane)) = 2

\* C17: an observer stays subscribed as long as the embed it observes is no
\* loaded image element; only the plugin's unload cancels it before.
C17_CancelledOnlyAfterMatch ==
    [][ last_calls'[2] # "removeCaptions" =>
            \A k \in 1..Len(dom) :
                (Observed(k) /\ ~dom'[k].matches) =>
                    \E i \in 1..Len(caption_observers') :
                        caption_observers'[i] = k ]_vars

-----------------------------------------------------------------------------
(* Claim about the label template, checked under SpecLabel *)

\* the label with every \# turned into # and every other # into the index
\* placeholder, from the 1-based position p on
RECURSIVE ExpandedLabel(_, _)
ExpandedLabel(l, p) ==
    IF p > Len(l) THEN <<>>
    ELSE IF l[p] = "\\" /\ p + 1 <= Len(l) /\ l[p + 1] = "#"
        THEN <<"#">> \o ExpandedLabel(l, p + 2)
    ELSE IF l[p] = "#" THEN IndexAttr \o ExpandedLabel(l, p + 1)
    ELSE <<l[p]>> \o ExpandedLabel(l, p + 1)

\* C16: in the stylesheet every unescaped # of the label is the index
\* placeholder and every \# is a literal #.
C16_LabelTemplate ==
    stylesheet = Str(StyleText(css, label, ExpandedLabel(label, 1)))

-----------------------------------------------------------------------------
(* Claims about the source and the alt text of a span, under SpecTree *)

\* the nodes of the span that carry the tag
Tagged(tr, nodes, tag) ==
    SelectSeq(nodes, LAMBDA i : tag \in tr[i].props)

\* the text of the document from the first to the last of the nodes
RegionText(tr, nodes) ==
    SubSeq(Doc(tr), NodeFrom(tr, nodes[1]) + 1, NodeTo(tr, nodes[Len(nodes)]))

\* r is p without its leading and trailing whitespace
IsTrimOf(r, p) ==
    /\ Trimmed(r)
    /\ \E a \in 0..Len(p) :
          /\ a + Len(r) <= Len(p)
          /\ SubSeq(p, a + 1, a + Len(r)) = r
          /\ Blank(SubSeq(p, 1, a))
          /\ Blank(SubSeq(p, a + Len(r) + 1, Len(p)))

\* p is the part of t that precedes its first |
IsBeforeFirstPipe(p, t) ==
    /\ Len(p) <= Len(t)
    /\ p = SubSeq(t, 1, Len(p))
    /\ \A i \in 1..Len(p) : p[i] # "|"
    /\ Len(p) = Len(t) \/ t[Len(p) + 1] = "|"

\* r is u without its first and its last character
IsInnerOf(r, u) ==
    IF Len(u) >= 2 THEN u = <<u[1]>> \o r \o <<u[Len(u)]>> ELSE r = <<>>

\* src is what the source rule gives for the text of the internal-link
\* nodes when there are any, otherwise for the text of the url nodes when
\* there are any
IsSourceOf(src, n_links, link_text, n_urls, url_text) ==
    /\ n_links > 0 =>
           \E n \in 0..Len(link_text) :
               /\ IsBeforeFirstPipe(SubSeq(link_text, 1, n), link_text)
               /\ IsTrimOf(src, SubSeq(link_text, 1, n))
    /\ (n_links = 0 /\ n_urls > 0) =>
           \E a \in 1..(Len(url_text) + 1), b \in 0..Len(url_text) :
               /\ IsTrimOf(SubSeq(url_text, a, b), url_text)
               /\ IsInnerOf(src, SubSeq(url_text, a, b))

\* the text of the tagged nodes, or the empty text when there is none
TextOfTagged(tr, tagged) ==
    IF Len(tagged) = 0 THEN <<>> ELSE RegionText(tr, tagged)

\* C21: the source of a record whose span holds internal-link nodes is the
\* trimmed text that precedes the first | of their text; otherwise, for a
\* span that holds url nodes, it is their trimmed text without its first
\* and its last character.
C21_SourceOfSpan ==
    images.t = "return" =>
        \A k \in 1..Len(images.images) :
            LET rec == images.images[k]
                links == Tagged(tree, rec.nodes, "hmd-internal-link")
                urls == Tagged(tree, rec.nodes, "url")
            IN  /\ IsStr(rec.src)
                /\ IsSourceOf(rec.src.v,
                              Len(links), TextOfTagged(tree, links),
                              Len(urls), TextOfTagged(tree, urls))

\* an aliased internal embed, whose link text holds a | and a blank, and an
\* external embed have been returned
C21_Witness ==
    /\ images.t = "return"
    /\ \E k \in 1..Len(images.images) :
          LET links == Tagged(tree, images.images[k].nodes, "hmd-internal-link")
          IN  /\ Len(links) = 2
              /\ images.images[k].src = Str(<<"a">>)
              /\ RegionText(tree, links) = <<"a", " ", "|">>
    /\ \E k \in 1..Len(images.images) :
          /\ images.images[k].embed_type = "external"
          /\ images.images[k].src = Str(<<"u">>)

\* the texts of the nodes, one after the other
RECURSIVE ConcatText(_, _)
ConcatText(tr, nodes) ==
    IF Len(nodes) = 0 THEN <<>>
    ELSE RegionText(tr, <<Head(nodes)>>) \o ConcatText(tr, Tail(nodes))

\* the alt-text carriers of the span
AltCarriers(tr, nodes) ==
    SelectSeq(nodes,
              LAMBDA i : tr[i].props \cap {"link-alias", "image-alt-text"} # {})

\* the caption and the size of the record are those of the alt text alt
IsParsedFrom(rec, alt, delim) ==
    /\ rec.caption = CaptionInfo(parseCaptionText(Str(alt), delim)).text
    /\ rec.size = CaptionInfo(parseCaptionText(Str(alt), delim)).size

\* C22: the alt text that is parsed and the text the source is taken from
\* are the texts of the tagged nodes alone, one after the other: the text of
\* a node with other tags that lies between two tagged nodes is left out.
C22_TaggedNodesOnly ==
    images.t = "return" =>
        \A k \in 1..Len(images.images) :
            LET rec == images.images[k]
                links == Tagged(tree, rec.nodes, "hmd-internal-link")
                urls == Tagged(tree, rec.nodes, "url")
                alts == AltCarriers(tree, rec.nodes)
            IN  /\ IsStr(rec.src)
                /\ IsSourceOf(rec.src.v,
                              Len(links), ConcatText(tree, links),
                              Len(urls), ConcatText(tree, urls))
                /\ Len(alts) > 0 =>
                       IsParsedFrom(rec, ConcatText(tree, alts), delimeter)

\* C23: a record whose span holds no alt-text carrier has no caption and no
\* size, whatever the delimeter setting is: the file name of an embed
\* without alias is never taken as its caption.
C23_NoAltNoCaption ==
    images.t = "return" =>
        \A k \in 1..Len(images.images) :
            Len(AltCarriers(tree, images.images[k].nodes)) = 0 =>
                /\ images.images[k].caption = Undefined
                /\ images.images[k].size = Undefined

\* with no delimeter set, where a parsed text is the caption as it is, an
\* internal embed without alias has been returned with its file name as
\* source
C23_Witness ==
    /\ images.t = "return"
    /\ delimeter = <<>>
    /\ \E k \in 1..Len(images.images) :
          /\ images.images[k].embed_type = "internal"
          /\ Len(AltCarriers(tree, images.images[k].nodes)) = 0
          /\ images.images[k].src = Str(<<"a">>)
          /\ images.images[k].caption = Undefined

-----------------------------------------------------------------------------
(* The pieces of a parsed alt text, under SpecCaption *)

\* C24: when a caption is returned for one or two delimiters, the text
\* before the start delimiter, the start delimiter, the caption, the end
\* delimiter and the text after it make up the alt text again: the start
\* delimiter ends at or before the place where the end delimiter begins.
C24_PiecesDoNotOverlap ==
    \A p \in {parsed, parsed_md} :
        (/\ p.t = "ParsedCaption"
         /\ IsStr(p.text)
         /\ Len(delimeter) \in {1, 2}) =>
            /\ FirstOccurrence(text.v, StartDelim) + Len(StartDelim)
                   <= LastOccurrence(text.v, EndDelim)
            /\ LeftSegment \o StartDelim \o p.text.v \o EndDelim
                   \o RightSegment = text.v

-----------------------------------------------------------------------------
(* The places captions are attached at, under SpecTree *)

\* img.nodes.at( -1 ).to: the end of the last node of the record's span
AttachPosition(tr, rec) == NodeTo(tr, rec.nodes[Len(rec.nodes)])

\* C25: in the list parse returns, the attach position of a record is never
\* before the attach position of a record that precedes it in the list.
C25_AttachPositionsSorted ==
    images.t = "return" =>
        \A i, j \in 1..Len(images.images) :
            i < j => AttachPosition(tree, images.images[i])
                         <= AttachPosition(tree, images.images[j])

\* C30: the source of an external record is what the url rule gives for the
\* url nodes of its span, and the source of an internal record is what the
\* internal-link rule gives for the internal-link nodes of its span,
\* whatever other nodes the span holds.
C30_SourceRuleMatchesKind ==
    images.t = "return" =>
        \A k \in 1..Len(images.images) :
            LET rec == images.images[k]
                links == Tagged(tree, rec.nodes, "hmd-internal-link")
                urls == Tagged(tree, rec.nodes, "url")
            IN  /\ IsStr(rec.src)
                /\ rec.embed_type = "external" =>
                       /\ Len(urls) > 0
                       /\ IsSourceOf(rec.src.v, 0, <<>>,
                                     Len(urls), TextOfTagged(tree, urls))
                /\ rec.embed_type = "internal" =>
                       /\ Len(links) > 0
                       /\ IsSourceOf(rec.src.v,
                                     Len(links), TextOfTagged(tree, links),
                                     0, <<>>)

-----------------------------------------------------------------------------
(* Which images get a caption element, under SpecPreview *)

\* C29: a caption element is made only for a record whose caption is
\* present and not empty.
C29_CaptionOnlyWhenParsed ==
    \A c \in ShownCaptions :
        Truthy(parse(tree, delimeter).images[c[1]].caption)

-----------------------------------------------------------------------------
(* Claims about the observers and the captions they add, under             *)
(* SpecObservers                                                           *)

Connected == {o \in 1..Len(mutation_observers) :
                 mutation_observers[o].connected}

\* C27: the observer list holds each connected observer once and no other
\* observer: removing an observer takes that observer alone out of the list
\* and disconnects it, and clearing the list disconnects every observer.
C27_ListIsConnectedObservers ==
    /\ \A i, j \in 1..Len(caption_observers) :
           i # j => caption_observers[i] # caption_observers[j]
    /\ {caption_observers[i] : i \in 1..Len(caption_observers)} = Connected

\* the first of two observers has been removed by its callback and the
\* second is still in the list
C27_Witness ==
    /\ Len(mutation_observers) >= 2
    /\ ~mutation_observers[1].connected
    /\ mutation_observers[2].connected
    /\ caption_observers = <<2>>

\* C28: an observer made by processExternalImageCaption is disconnected and
\* out of the list once the records of its image's processing have been
\* handed to its callback.
C28_ExternalObserverReleased ==
    \A o \in 1..Len(mutation_observers) :
        (/\ mutation_observers[o].kind = "external"
         /\ Len(mutation_observers[o].records) = 0) =>
            /\ ~mutation_observers[o].connected
            /\ ~InList(caption_observers, o)

====
